---- MODULE Spec2Model ----
(***************************************************************************)
(* Model of main.ts of github-pr-screenshot-table: the label parser        *)
(* (parseFilename), the tag extractor and classifier (parseImages), the    *)
(* grouper (groupImagesByCategory), the title formatter                    *)
(* (formatCategoryTitle), the renderer (generateTable) and the clipboard   *)
(* conversion that drives them (convertClipboard).                         *)
(*                                                                         *)
(* A JavaScript string is modelled as a sequence of one-character strings, *)
(* so that the regular expressions of the source are modelled by what they *)
(* match, character by character.                                          *)
(***************************************************************************)
EXTENDS Integers, Sequences, FiniteSets, TLC

VARIABLES
    filename,          \* parseFilename: its argument
    parsed,            \* parseFilename: its return value (NotParsed before the call)
    pc,                \* convertClipboard: the position of the run
    clipboard,         \* the content of the system clipboard (pbpaste / pbcopy)
    images,            \* convertClipboard: const images = parseImages(...)
    standaloneImages,  \* convertClipboard: groupImagesByCategory(...).standaloneImages
    pairedGroups,      \* convertClipboard: groupImagesByCategory(...).pairedGroups
    dialogs,           \* the titles of the dialogs shown so far (showDialog)
    clipboardContent,  \* convertClipboard: const clipboardContent = await readClipboard()
    document,          \* the <img> elements of the HTML the user copied
    tableHtml,         \* convertClipboard: const tableHtml = generateTable(...)
    steps,             \* the calls convertClipboard has made so far, in order
    category,          \* formatCategoryTitle: its argument
    title              \* formatCategoryTitle: its return value (NoTitle before the call)

vars == <<filename, parsed, pc, clipboard, clipboardContent, document, images,
          standaloneImages, pairedGroups, dialogs, tableHtml, steps, category,
          title>>

runVars == <<pc, clipboard, clipboardContent, document, images, standaloneImages,
             pairedGroups, dialogs, tableHtml, steps>>

----------------------------------------------------------------------------
(* Bounds of the explored inputs.                                          *)

\* the longest label of the label parser's inputs, in tokens
MaxTokens == 3
\* the number of <img> tags up to which every document is explored
MaxTags == 2

----------------------------------------------------------------------------
(* Characters and strings.                                                 *)

Min(S) == CHOOSE x \in S : \A y \in S : x <= y

UpperLetters == <<"A","B","C","D","E","F","G","H","I","J","K","L","M",
                  "N","O","P","Q","R","S","T","U","V","W","X","Y","Z">>
LowerLetters == <<"a","b","c","d","e","f","g","h","i","j","k","l","m",
                  "n","o","p","q","r","s","t","u","v","w","x","y","z">>
DigitChars == <<"0","1","2","3","4","5","6","7","8","9">>

\* the character class \d
Digits == {"0","1","2","3","4","5","6","7","8","9"}
IsDigit(c) == c \in Digits
\* the character class \s (its ASCII members)
Spaces == {" ", "\t", "\n", "\r", "\f"}
IsSpace(c) == c \in Spaces
\* the character class [\s_]
SpacesAndUnderscore == Spaces \cup {"_"}

\* the lower-case letter of each upper-case letter, and the reverse
LowerOf == [c \in {UpperLetters[i] : i \in 1..26} |->
                LowerLetters[CHOOSE i \in 1..26 : UpperLetters[i] = c]]
UpperOf == [c \in {LowerLetters[i] : i \in 1..26} |->
                UpperLetters[CHOOSE i \in 1..26 : LowerLetters[i] = c]]

\* String.prototype.toLowerCase, one character
toLowerCaseChar(c) == IF c \in DOMAIN LowerOf THEN LowerOf[c] ELSE c
\* String.prototype.toUpperCase, one character
toUpperCaseChar(c) == IF c \in DOMAIN UpperOf THEN UpperOf[c] ELSE c

toLowerCase(s) == [i \in 1..Len(s) |-> toLowerCaseChar(s[i])]

\* s.slice(from) with from counted from 1
Drop(s, n) == SubSeq(s, n + 1, Len(s))

\* the length of the longest run of characters of the class that starts at
\* s[i]: what a greedy [class]* matches there
RunLen(s, i, class) ==
    Min({j \in i..(Len(s) + 1) : j = Len(s) + 1 \/ s[j] \notin class}) - i

\* the same for a negated class [^ch]
RunLenNot(s, i, ch) ==
    Min({j \in i..(Len(s) + 1) : j = Len(s) + 1 \/ s[j] = ch}) - i

\* `word` occurs in s at position i, letter case ignored (flag i)
OccursAt(s, i, word) ==
    /\ i >= 1
    /\ i + Len(word) - 1 <= Len(s)
    /\ \A j \in 1..Len(word) :
           toLowerCaseChar(s[i + j - 1]) = toLowerCaseChar(word[j])

\* parseInt on a run of decimal digits
RECURSIVE parseInt(_)
parseInt(ds) ==
    IF ds = <<>> THEN 0
    ELSE 10 * parseInt(SubSeq(ds, 1, Len(ds) - 1))
         + (CHOOSE i \in 1..10 : DigitChars[i] = ds[Len(ds)]) - 1

\* String.prototype.split on a one-character separator
RECURSIVE split(_, _)
split(s, sep) ==
    IF \A i \in 1..Len(s) : s[i] # sep THEN <<s>>
    ELSE LET k == Min({i \in 1..Len(s) : s[i] = sep})
         IN  <<SubSeq(s, 1, k - 1)>> \o split(Drop(s, k), sep)

\* Array.prototype.join with a separator string
RECURSIVE join(_, _)
join(parts, sep) ==
    IF parts = <<>> THEN <<>>
    ELSE IF Len(parts) = 1 THEN parts[1]
    ELSE parts[1] \o sep \o join(Tail(parts), sep)

\* String.prototype.trim
trim(s) ==
    IF \A i \in 1..Len(s) : IsSpace(s[i]) THEN <<>>
    ELSE LET first == Min({i \in 1..Len(s) : ~IsSpace(s[i])})
             last == CHOOSE i \in 1..Len(s) :
                        /\ ~IsSpace(s[i])
                        /\ \A j \in (i + 1)..Len(s) : IsSpace(s[j])
         IN  SubSeq(s, first, last)

\* content.replace(/_/g, ' ')
replaceUnderscores(s) == [i \in 1..Len(s) |-> IF s[i] = "_" THEN " " ELSE s[i]]

----------------------------------------------------------------------------
(* parseFilename                                                           *)

\* the words the source compares with or writes
Before == <<"b","e","f","o","r","e">>
After == <<"a","f","t","e","r">>
FeatureWord == <<"f","e","a","t","u","r","e">>
FeaturePrefix == <<"F","e","a","t","u","r","e"," ">>

\* a regular expression that does not match (String.prototype.match gives null)
NoMatch == <<>>

\* the length of the match of /^(\d+)\.?\s*/ at the start of filename, 0 when
\* it does not match
prefixLen(fn) ==
    LET d == RunLen(fn, 1, Digits)
        dot == IF d + 1 <= Len(fn) /\ fn[d + 1] = "." THEN 1 ELSE 0
    IN  IF d = 0 THEN 0
        ELSE d + dot + RunLen(fn, d + dot + 1, Spaces)

\* filename.match(/^(\d+)\.?\s*/): the captured group in a one-element tuple
prefixMatch(fn) ==
    IF prefixLen(fn) = 0 THEN NoMatch
    ELSE <<SubSeq(fn, 1, RunLen(fn, 1, Digits))>>

\* match ? match[1] : ''
groupOrEmpty(match) == IF match # NoMatch THEN match[1] ELSE <<>>

\* a plausible slip: /^(\d)/, the first digit alone is the order
order_firstDigit(fn) ==
    IF prefixMatch(fn) # NoMatch THEN parseInt(<<fn[1]>>) ELSE 0

\* prefixMatch ? parseInt(prefixMatch[1]) : 0
order(fn) == parseInt(groupOrEmpty(prefixMatch(fn)))

\* filename.replace(/^\d+\.?\s*/, '')
withoutPrefix(fn) == Drop(fn, prefixLen(fn))

\* withoutPrefix.split('_')
parts(fn) == split(withoutPrefix(fn), "_")

\* parts[parts.length - 1].toLowerCase()
lastPart(ps) == toLowerCase(ps[Len(ps)])

IsTimingWord(word) == word = Before \/ word = After

\* a plausible slip: the last part is compared without toLowerCase()
hasTimingSuffix_caseSensitive(ps) ==
    Len(ps) >= 2 /\ IsTimingWord(ps[Len(ps)])

\* parts.length >= 2 and lastPart is 'before' or 'after'
hasTimingSuffix(ps) ==
    Len(ps) >= 2 /\ IsTimingWord(lastPart(ps))

TimingOfWord(word) == IF word = Before THEN "before" ELSE "after"

timing(ps) ==
    IF hasTimingSuffix(ps) THEN TimingOfWord(lastPart(ps)) ELSE "standalone"

contentParts(ps) ==
    IF hasTimingSuffix(ps) THEN SubSeq(ps, 1, Len(ps) - 1) ELSE ps

\* contentParts.join('_')
content(ps) == join(contentParts(ps), <<"_">>)

\* the match of /[Ff]eature[\s_]*(\d+)/i that starts at c[i], with the
\* separators the class `Separator` allows
featureMatchAt(c, i, Separator) ==
    LET n == i + 7 + RunLen(c, i + 7, Separator)
    IN  IF OccursAt(c, i, FeatureWord) /\ RunLen(c, n, Digits) >= 1
        THEN <<SubSeq(c, n, n + RunLen(c, n, Digits) - 1)>>
        ELSE NoMatch

\* a plausible slip: /[Ff]eature(\d+)/i, no separator allowed before the number
featurePatternMatch_noSeparator(c) ==
    LET starts == {i \in 1..Len(c) : featureMatchAt(c, i, {}) # NoMatch}
    IN  IF starts = {} THEN NoMatch ELSE featureMatchAt(c, Min(starts), {})

\* content.match(/[Ff]eature[\s_]*(\d+)/i): the leftmost match
featurePatternMatch(c) ==
    LET starts == {i \in 1..Len(c) : featureMatchAt(c, i, SpacesAndUnderscore) # NoMatch}
    IN  IF starts = {} THEN NoMatch
        ELSE featureMatchAt(c, Min(starts), SpacesAndUnderscore)

\* content.match(/^[Ff]eature(\d+)$/i)
featureOnlyMatch(c) ==
    IF /\ OccursAt(c, 1, FeatureWord)
       /\ Len(c) >= 8
       /\ RunLen(c, 8, Digits) = Len(c) - 7
    THEN <<Drop(c, 7)>>
    ELSE NoMatch

\* content.match(/^(\d+)$/)
numberOnlyMatch(c) ==
    IF Len(c) >= 1 /\ RunLen(c, 1, Digits) = Len(c) THEN <<c>> ELSE NoMatch

\* a || b || c on match results
FirstMatch(a, b, c) ==
    IF a # NoMatch THEN a ELSE IF b # NoMatch THEN b ELSE c

\* a plausible slip: the bare number counts whatever the order is
featureMatch_ungated(c, ord) ==
    FirstMatch(featurePatternMatch(c), featureOnlyMatch(c), numberOnlyMatch(c))

\* match1 || match2 || (order > 0 && match3)
featureMatch(c, ord) ==
    FirstMatch(featurePatternMatch(c),
               featureOnlyMatch(c),
               IF ord > 0 THEN numberOnlyMatch(c) ELSE NoMatch)

\* featureMatch ? featureMatch[1] : ''
featureNumber(c, ord) == groupOrEmpty(featureMatch(c, ord))

\* a plausible slip: the content is not trimmed
formattedAlt_noTrim(number, c) ==
    IF number # <<>> THEN FeaturePrefix \o number ELSE replaceUnderscores(c)

\* featureNumber ? `Feature ${featureNumber}` : content.replace(/_/g, ' ').trim()
formattedAlt(number, c) ==
    IF number # <<>> THEN FeaturePrefix \o number ELSE trim(replaceUnderscores(c))

\* the content of a label: the value of the local variable `content`
contentOf(fn) == content(parts(fn))

\* the returned object
returnValue(ord, number, ps, c) ==
    [order |-> ord,
     featureNumber |-> number,
     timing |-> timing(ps),
     formattedAlt |-> formattedAlt(number, c)]

parseFilename(fn) ==
    returnValue(order(fn),
                featureNumber(contentOf(fn), order(fn)),
                parts(fn),
                contentOf(fn))

----------------------------------------------------------------------------
(* The labels the label parser is applied to: every string of at most      *)
(* MaxTokens tokens, and the labels of the documentation and of the tests. *)

LabelTokens ==
    {<<"0">>, <<"1">>, <<".">>, <<" ">>, <<"_">>, <<"x">>,
     <<"F","e","a","t","u","r","e">>,
     <<"b","e","f","o","r","e">>,
     <<"A","F","T","E","R">>}

RECURSIVE TokenLabels(_)
TokenLabels(n) ==
    IF n = 0 THEN {<<>>}
    ELSE TokenLabels(n - 1)
         \cup {l \o t : l \in TokenLabels(n - 1), t \in LabelTokens}

ExampleLabels ==
    {<<"1","."," ","F","e","a","t","u","r","e","_","1","_","b","e","f","o","r","e">>,
     <<"2",".","F","e","a","t","u","r","e"," ","2","5","_","b","e","f","o","r","e">>,
     <<"3"," ","F","e","a","t","u","r","e"," ","3","2">>,
     <<"4","f","e","a","t","u","r","e","5","4","_","a","f","t","e","r">>,
     <<"5"," ","m","y"," ","a","w","e","s","o","m","e"," ",
       "f","e","a","t","u","r","e"," ","b","e","f","o","r","e">>,
     <<"6"," ","b","u","t","t","o","n","_","s","t","y","l","e"," ","A","F","T","E","R">>,
     <<"2","."," ","U","s","e","r"," ","P","r","o","f","i","l","e"," ",
       "b","e","f","o","r","e">>,
     <<"2","."," ","U","s","e","r"," ","P","r","o","f","i","l","e"," ",
       "a","f","t","e","r">>,
     <<"n","o","_","p","r","e","f","i","x","_","i","m","a","g","e">>,
     <<"c","a","t","e","g","o","r","y","_","b","e","f","o","r","e">>,
     <<"s","t","a","n","d","a","l","o","n","e","1">>}

\* parseImages calls parseFilename on non-empty alt texts only
Labels == (TokenLabels(MaxTokens) \ {<<>>}) \cup ExampleLabels

----------------------------------------------------------------------------
(* The label parser on its own: parseFilename applied to one label.        *)

\* parsed before the call; after it parsed = <<the returned object>>
NotParsed == <<>>

InitLabel ==
    /\ filename \in Labels
    /\ parsed = NotParsed
    /\ pc = "off"
    /\ clipboard = <<>>
    /\ clipboardContent = <<>>
    /\ document = <<>>
    /\ images = <<>>
    /\ standaloneImages = <<>>
    /\ pairedGroups = <<>>
    /\ dialogs = <<>>
    /\ tableHtml = <<>>
    /\ steps = <<>>
    /\ category = <<>>
    /\ title = <<>>

ParseFilename ==
    /\ parsed = NotParsed
    /\ filename # <<>>
    /\ parsed' = <<parseFilename(filename)>>
    /\ UNCHANGED <<filename, runVars, category, title>>

NextLabel == ParseFilename

SpecLabel == InitLabel /\ [][NextLabel]_vars

----------------------------------------------------------------------------
(* parseImages                                                             *)

ImgOpen == <<"<","i","m","g">>
Quote == "\""

Gt == ">"

\* the end of the match of /<img[^>]+>/i that starts at html[i], 0 when the
\* expression does not match there
imgTagEnd(html, i) ==
    IF /\ OccursAt(html, i, ImgOpen)
       /\ RunLenNot(html, i + 4, Gt) >= 1
       /\ i + 4 + RunLenNot(html, i + 4, Gt) <= Len(html)
    THEN i + 4 + RunLenNot(html, i + 4, Gt)
    ELSE 0

\* the matches of imgRegex.exec(htmlContent) from lastIndex on (flag g):
\* the tags of the text, left to right
RECURSIVE imgTags(_, _)
imgTags(html, lastIndex) ==
    LET starts == {i \in lastIndex..Len(html) : imgTagEnd(html, i) > 0}
    IN  IF starts = {} THEN <<>>
        ELSE LET i == Min(starts)
             IN  <<SubSeq(html, i, imgTagEnd(html, i))>>
                 \o imgTags(html, imgTagEnd(html, i) + 1)

\* imgTag.match(/name="([^"]+)"/i): the leftmost match, its group in a tuple
attrMatch(imgTag, name) ==
    LET opening == name \o <<"=", Quote>>
        valueAt(i) == i + Len(opening)
        matchesAt(i) == /\ OccursAt(imgTag, i, opening)
                        /\ RunLenNot(imgTag, valueAt(i), Quote) >= 1
                        /\ valueAt(i) + RunLenNot(imgTag, valueAt(i), Quote) <= Len(imgTag)
        starts == {i \in 1..Len(imgTag) : matchesAt(i)}
    IN  IF starts = {} THEN NoMatch
        ELSE LET v == valueAt(Min(starts))
             IN  <<SubSeq(imgTag, v, v + RunLenNot(imgTag, v, Quote) - 1)>>

originalAlt(imgTag) ==
    LET altMatch == attrMatch(imgTag, <<"a","l","t">>)
    IN  IF altMatch # NoMatch THEN altMatch[1] ELSE <<>>

srcOf(imgTag) ==
    LET srcMatch == attrMatch(imgTag, <<"s","r","c">>)
    IN  IF srcMatch # NoMatch THEN srcMatch[1] ELSE <<>>

\* a plausible slip: alt and category are the content of the label, with no
\* "Feature <n>" rewriting
imageInfo_contentName(alt, src) ==
    LET p == parseFilename(alt)
    IN  [alt |-> trim(replaceUnderscores(contentOf(alt))),
         src |-> src,
         category |-> trim(replaceUnderscores(contentOf(alt))),
         timing |-> p.timing,
         order |-> p.order]

\* the ImageInfo pushed for an alt and a src
imageInfo(alt, src) ==
    LET p == parseFilename(alt)
    IN  [alt |-> p.formattedAlt,
         src |-> src,
         category |-> p.formattedAlt,
         timing |-> p.timing,
         order |-> p.order]

\* the body of the while loop: what one tag adds to the images array
pushImage(imgTag) ==
    LET alt == originalAlt(imgTag)
        src == srcOf(imgTag)
    IN  IF alt # <<>> /\ src # <<>> THEN <<imageInfo(alt, src)>> ELSE <<>>

\* the images array when the while loop ends, before it is sorted
RECURSIVE pushImages(_)
pushImages(tags) ==
    IF tags = <<>> THEN <<>>
    ELSE pushImage(tags[1]) \o pushImages(Tail(tags))

extractedImages(htmlContent) == pushImages(imgTags(htmlContent, 1))

\* a plausible slip: an unstable sort, which puts image before its equals
insertByOrder_beforeEquals(sorted, image) ==
    LET n == Cardinality({i \in 1..Len(sorted) : sorted[i].order < image.order})
    IN  SubSeq(sorted, 1, n) \o <<image>> \o Drop(sorted, n)

\* the place of image in a sorted array: after every element the comparator
\* (a, b) => a.order - b.order does not put behind it
insertByOrder(sorted, image) ==
    LET n == Cardinality({i \in 1..Len(sorted) : sorted[i].order <= image.order})
    IN  SubSeq(sorted, 1, n) \o <<image>> \o Drop(sorted, n)

\* images.sort((a, b) => a.order - b.order): Array.prototype.sort is stable
RECURSIVE sortByOrder(_)
sortByOrder(imgs) ==
    IF imgs = <<>> THEN <<>>
    ELSE insertByOrder(sortByOrder(SubSeq(imgs, 1, Len(imgs) - 1)), imgs[Len(imgs)])

\* a plausible slip: the images are returned in the order of their tags
parseImages_unsorted(htmlContent) == extractedImages(htmlContent)

parseImages(htmlContent) == sortByOrder(extractedImages(htmlContent))

----------------------------------------------------------------------------
(* groupImagesByCategory                                                   *)

\* the Map pairedGroups is the sequence of its entries in insertion order; an
\* optional property (before?, after?) is a tuple of no or one ImageInfo
hasGroup(groups, name) == \E i \in 1..Len(groups) : groups[i].key = name

newGroup(image) ==
    [key |-> image.category, before |-> <<>>, after |-> <<>>, order |-> image.order]

\* a plausible slip: group.order = image.order, the order of the latest image
mathMin_latest(a, b) == b

\* Math.min
mathMin(a, b) == IF a <= b THEN a ELSE b

\* a plausible slip: a slot that is taken keeps its image
putInGroup_firstWins(group, image) ==
    [key |-> group.key,
     before |-> IF image.timing = "before" /\ group.before = <<>>
                THEN <<image>> ELSE group.before,
     after |-> IF image.timing = "after" /\ group.after = <<>>
               THEN <<image>> ELSE group.after,
     order |-> mathMin(group.order, image.order)]

\* group[image.timing] = image; group.order = Math.min(group.order, image.order)
putInGroup(group, image) ==
    [key |-> group.key,
     before |-> IF image.timing = "before" THEN <<image>> ELSE group.before,
     after |-> IF image.timing = "after" THEN <<image>> ELSE group.after,
     order |-> mathMin(group.order, image.order)]

\* the else branch of the loop body: one paired image goes into the Map
addToGroups(groups, image) ==
    LET gs == IF hasGroup(groups, image.category) THEN groups
              ELSE Append(groups, newGroup(image))
    IN  [i \in 1..Len(gs) |->
            IF gs[i].key = image.category THEN putInGroup(gs[i], image) ELSE gs[i]]

RECURSIVE groupPaired(_)
groupPaired(imgs) ==
    IF imgs = <<>> THEN <<>>
    ELSE LET last == imgs[Len(imgs)]
             before == groupPaired(SubSeq(imgs, 1, Len(imgs) - 1))
         IN  IF last.timing = "standalone" THEN before ELSE addToGroups(before, last)

IsStandalone(image) == image.timing = "standalone"

groupImagesByCategory(imgs) ==
    [standaloneImages |-> SelectSeq(imgs, IsStandalone),
     pairedGroups |-> groupPaired(imgs)]

----------------------------------------------------------------------------
(* formatCategoryTitle                                                     *)

\* word.charAt(0).toUpperCase() + word.slice(1)
capitalize(word) ==
    IF word = <<>> THEN <<>> ELSE <<toUpperCaseChar(word[1])>> \o Tail(word)

\* .map(word => ...)
capitalizeAll(words) == [i \in 1..Len(words) |-> capitalize(words[i])]

\* a plausible slip: the segments are joined back with the underscore
formatCategoryTitle_keepUnderscore(c) == join(capitalizeAll(split(c, "_")), <<"_">>)

formatCategoryTitle(c) == join(capitalizeAll(split(c, "_")), <<" ">>)

\* the title formatter on its own: formatCategoryTitle applied to one category
ExampleCategories ==
    {<<>>,
     <<"F","e","a","t","u","r","e"," ","1">>,
     <<"F","e","a","t","u","r","e"," ","2","5">>,
     <<"m","y","_","l","o","n","g","_","c","a","t","e","g","o","r","y">>,
     <<"M","y"," ","L","o","n","g"," ","C","a","t","e","g","o","r","y">>,
     <<"l","o","g","i","n"," ","s","c","r","e","e","n">>}

Categories == TokenLabels(MaxTokens) \cup ExampleCategories

NoTitle == <<>>

InitTitle ==
    /\ category \in Categories
    /\ title = NoTitle
    /\ filename = <<>>
    /\ parsed = NotParsed
    /\ pc = "off"
    /\ clipboard = <<>>
    /\ clipboardContent = <<>>
    /\ document = <<>>
    /\ images = <<>>
    /\ standaloneImages = <<>>
    /\ pairedGroups = <<>>
    /\ dialogs = <<>>
    /\ tableHtml = <<>>
    /\ steps = <<>>

FormatCategoryTitle ==
    /\ title = NoTitle
    /\ title' = <<formatCategoryTitle(category)>>
    /\ UNCHANGED <<category, filename, parsed, runVars>>

NextTitle == FormatCategoryTitle

SpecTitle == InitTitle /\ [][NextTitle]_vars

----------------------------------------------------------------------------
(* generateTable                                                           *)
(*                                                                         *)
(* tableHtml is the sequence of the strings appended to it with +=, one    *)
(* line of markup each.  A line is a template literal: `text` holds its    *)
(* fixed pieces and `values` the strings interpolated between them.        *)

Line(text, values) == [text |-> text, values |-> values]

TableOpen == Line(<<"<details><summary>Click to expand...</summary>\n<table>\n">>, <<>>)
TableClose == Line(<<"</table></details>">>, <<>>)
TrOpen == Line(<<"  <tr>\n">>, <<>>)
TrClose == Line(<<"  </tr>\n">>, <<>>)
Th(t) == Line(<<"    <th>", "</th>\n">>, <<t>>)
ThEmpty == Line(<<"    <th></th>\n">>, <<>>)
ThColspan(t) == Line(<<"    <th colspan=\"2\">", "</th>\n">>, <<t>>)
ThBefore == Line(<<"    <th>Before</th>\n">>, <<>>)
ThAfter == Line(<<"    <th>After</th>\n">>, <<>>)
TdImg(image) ==
    Line(<<"    <td><img src=\"", "\" alt=\"", "\" width=\"400\"></td>\n">>,
         <<image.src, image.alt>>)
TdEmpty == Line(<<"    <td></td>\n">>, <<>>)

\* a plausible slip: descending instead of ascending
sortedPairedGroups_descending(groups) ==
    LET s == sortByOrder(groups)
    IN  [i \in 1..Len(s) |-> s[Len(s) + 1 - i]]

\* Array.from(pairedGroups.entries()).sort(([, a], [, b]) => a.order - b.order)
sortedPairedGroups(groups) == sortByOrder(groups)

\* a plausible slip: the odd image out gets no partner cells
partnerCell_omitted(present, cell, empty) == IF present THEN <<cell>> ELSE <<>>

\* if (i + 1 < standaloneImages.length) { cell } else { empty cell }
partnerCell(present, cell, empty) == IF present THEN <<cell>> ELSE <<empty>>

\* a plausible slip: the second image of the row is never rendered
standalonePair_leftOnly(imgs, i) ==
    <<TrOpen, Th(formatCategoryTitle(imgs[i + 1].category)), ThEmpty, TrClose,
      TrOpen, TdImg(imgs[i + 1]), TdEmpty, TrClose>>

\* the body of the loop over the standalone images, for the index i (from 0)
standalonePair(imgs, i) ==
    LET image1 == imgs[i + 1]
        second == i + 1 < Len(imgs)
        image2 == imgs[IF second THEN i + 2 ELSE i + 1]
    IN  <<TrOpen, Th(formatCategoryTitle(image1.category))>>
        \o partnerCell(second, Th(formatCategoryTitle(image2.category)), ThEmpty)
        \o <<TrClose, TrOpen, TdImg(image1)>>
        \o partnerCell(second, TdImg(image2), TdEmpty)
        \o <<TrClose>>

\* for (let i = 0; i < standaloneImages.length; i += 2)
RECURSIVE standaloneRows(_, _)
standaloneRows(imgs, i) ==
    IF i < Len(imgs) THEN standalonePair(imgs, i) \o standaloneRows(imgs, i + 2)
    ELSE <<>>

\* a plausible slip: a missing image gets no cell
slotCell_omitted(slot) == IF slot # <<>> THEN <<TdImg(slot[1])>> ELSE <<>>

\* if (group.before) { image cell } else { empty cell }
slotCell(slot) == IF slot # <<>> THEN <<TdImg(slot[1])>> ELSE <<TdEmpty>>

\* the body of the loop over the paired groups
groupRows(group) ==
    <<TrOpen, ThColspan(formatCategoryTitle(group.key)), TrClose,
      TrOpen, ThBefore, ThAfter, TrClose,
      TrOpen>> \o slotCell(group.before) \o slotCell(group.after) \o <<TrClose>>

\* for (const [category, group] of sortedPairedGroups)
RECURSIVE pairedRows(_)
pairedRows(groups) ==
    IF groups = <<>> THEN <<>> ELSE groupRows(groups[1]) \o pairedRows(Tail(groups))

\* a plausible slip: the paired groups first
generateTable_pairedFirst(standalone, groups) ==
    <<TableOpen>> \o pairedRows(sortedPairedGroups(groups))
    \o standaloneRows(standalone, 0) \o <<TableClose>>

generateTable(standalone, groups) ==
    <<TableOpen>> \o standaloneRows(standalone, 0)
    \o pairedRows(sortedPairedGroups(groups)) \o <<TableClose>>

----------------------------------------------------------------------------
(* The clipboard: the HTML the user copied, a list of <img> elements.      *)

\* the alt texts of the elements
PipeLabels ==
    {<<"x","_","b","e","f","o","r","e">>,
     <<"1","x","_","b","e","f","o","r","e">>,
     <<"y">>,
     <<"3","y">>,
     <<"4","f","e","a","t","u","r","e","5","4","_","a","f","t","e","r">>,
     <<"F","e","a","t","u","r","e","_","5","4","_","b","e","f","o","r","e">>}

Attr(name, value) == [name |-> name, value |-> value]

AltName == <<"a","l","t">>
SrcName == <<"s","r","c">>
DataAltName == <<"d","a","t","a","-","a","l","t">>

\* the src of the i-th element of the document
Url(i) == <<"u", DigitChars[i + 1]>>

\* the elements a document is made of: the attributes before the src, and
\* whether the element has a src attribute
ElementKinds ==
    {[attrs |-> <<Attr(AltName, l)>>, src |-> TRUE] : l \in PipeLabels}
    \cup {[attrs |-> <<>>, src |-> TRUE],                            \* no alt
          [attrs |-> <<Attr(AltName, <<"y">>)>>, src |-> FALSE],     \* no src
          [attrs |-> <<Attr(AltName, <<>>)>>, src |-> TRUE],         \* alt=""
          [attrs |-> <<Attr(DataAltName, <<"y">>)>>, src |-> TRUE],  \* data-alt
          [attrs |-> <<Attr(AltName, <<"y",">","y">>)>>, src |-> TRUE]}  \* alt="y>y"

\* the attribute list of the i-th element
Element(kind, i) ==
    kind.attrs \o (IF kind.src THEN <<Attr(SrcName, Url(i))>> ELSE <<>>)

\* the elements of the longer documents: well-formed, with these alt texts
CoreKinds ==
    {[attrs |-> <<Attr(AltName, l)>>, src |-> TRUE] :
        l \in {<<"x","_","b","e","f","o","r","e">>,
               <<"1","x","_","b","e","f","o","r","e">>,
               <<"y">>,
               <<"3","y">>,
               <<"4","f","e","a","t","u","r","e","5","4","_","a","f","t","e","r">>,
               <<"F","e","a","t","u","r","e","_","5","4","_","b","e","f","o","r","e">>}}

DocumentsOf(kinds, n) ==
    {[i \in 1..n |-> Element(ks[i], i)] : ks \in [1..n -> kinds]}

\* the four tags of the first test of main_test.ts, as GitHub writes them
FixtureElement(label, i) ==
    <<Attr(<<"w","i","d","t","h">>, <<"1","1","7","0">>),
      Attr(<<"h","e","i","g","h","t">>, <<"2","5","3","2">>),
      Attr(AltName, label),
      Attr(SrcName, Url(i))>>

FixtureDocument ==
    <<FixtureElement(<<"1","."," ","F","e","a","t","u","r","e","_","1","_",
                       "b","e","f","o","r","e">>, 1),
      FixtureElement(<<"2",".","F","e","a","t","u","r","e"," ","2","5","_",
                       "b","e","f","o","r","e">>, 2),
      FixtureElement(<<"3"," ","F","e","a","t","u","r","e"," ","3","2">>, 3),
      FixtureElement(<<"4","f","e","a","t","u","r","e","5","4","_",
                       "a","f","t","e","r">>, 4)>>

\* the two tags of the example "Before/After Pairs" of USAGE.md
UsageDocument ==
    <<<<Attr(AltName, <<"1","."," ","l","o","g","i","n","_","s","c","r","e","e","n","_",
                        "b","e","f","o","r","e">>),
        Attr(SrcName, <<"u","r","l","1",".","j","p","g">>)>>,
      <<Attr(AltName, <<"1","."," ","l","o","g","i","n","_","s","c","r","e","e","n","_",
                        "a","f","t","e","r">>),
        Attr(SrcName, <<"u","r","l","2",".","j","p","g">>)>>>>

\* the two tags of the example "Standalone Images" of USAGE.md
StandaloneDocument ==
    <<<<Attr(AltName, <<"1","."," ","D","a","s","h","b","o","a","r","d"," ","O","v","e","r","v","i","e","w">>),
        Attr(SrcName, <<"d","a","s","h",".","j","p","g">>)>>,
      <<Attr(AltName, <<"2","."," ","S","e","t","t","i","n","g","s"," ","P","a","n","e","l">>),
        Attr(SrcName, <<"s","e","t","t","i","n","g","s",".","j","p","g">>)>>>>

\* every document of at most MaxTags elements, the well-formed documents of
\* one element more, and the documents of the test and of USAGE.md
Documents ==
    UNION {DocumentsOf(ElementKinds, n) : n \in 0..MaxTags}
    \cup DocumentsOf(CoreKinds, MaxTags + 1)
    \cup {FixtureDocument, UsageDocument, StandaloneDocument}

RECURSIVE attrsHtml(_)
attrsHtml(attrs) ==
    IF attrs = <<>> THEN <<>>
    ELSE <<" ">> \o attrs[1].name \o <<"=", Quote>> \o attrs[1].value \o <<Quote>>
         \o attrsHtml(Tail(attrs))

\* the markup of one element, as GitHub writes it
elementHtml(attrs) == ImgOpen \o attrsHtml(attrs) \o <<" ", "/", ">">>

RECURSIVE documentHtml(_)
documentHtml(doc) ==
    IF doc = <<>> THEN <<>>
    ELSE elementHtml(doc[1]) \o <<"\n">> \o documentHtml(Tail(doc))

----------------------------------------------------------------------------
(* convertClipboard                                                        *)

Init ==
    /\ filename = <<>>
    /\ parsed = NotParsed
    /\ category = <<>>
    /\ title = NoTitle
    /\ pc = "start"
    /\ document \in Documents
    /\ clipboard = documentHtml(document)
    /\ clipboardContent = <<>>
    /\ images = <<>>
    /\ standaloneImages = <<>>
    /\ pairedGroups = <<>>
    /\ dialogs = <<>>
    /\ tableHtml = <<>>
    /\ steps = <<>>

unchangedInputs == UNCHANGED <<filename, parsed, category, title, document>>

\* readClipboard succeeds and the content is not blank
ReadClipboard ==
    /\ pc = "start"
    /\ trim(clipboard) # <<>>
    /\ clipboardContent' = clipboard
    /\ steps' = Append(steps, "readClipboard")
    /\ pc' = "parse"
    /\ UNCHANGED <<clipboard, images, standaloneImages, pairedGroups, dialogs, tableHtml>>
    /\ unchangedInputs

\* readClipboard succeeds and the content is blank: the "No Content" dialog
ReadEmptyClipboard ==
    /\ pc = "start"
    /\ trim(clipboard) = <<>>
    /\ clipboardContent' = clipboard
    /\ steps' = steps \o <<"readClipboard", "showDialog">>
    /\ dialogs' = Append(dialogs, "No Content")
    /\ pc' = "returned"
    /\ UNCHANGED <<clipboard, images, standaloneImages, pairedGroups, tableHtml>>
    /\ unchangedInputs

\* pbpaste fails: readClipboard throws, the catch block shows "Error" and exits
ReadClipboardFails ==
    /\ pc = "start"
    /\ steps' = steps \o <<"readClipboard", "showDialog">>
    /\ dialogs' = Append(dialogs, "Error")
    /\ pc' = "exit1"
    /\ UNCHANGED <<clipboard, clipboardContent, images, standaloneImages,
                   pairedGroups, tableHtml>>
    /\ unchangedInputs

\* parseImages finds images
ParseImages ==
    /\ pc = "parse"
    /\ \E result \in {parseImages(clipboardContent)} :
           /\ Len(result) # 0
           /\ images' = result
    /\ steps' = Append(steps, "parseImages")
    /\ pc' = "group"
    /\ UNCHANGED <<clipboard, clipboardContent, standaloneImages, pairedGroups,
                   dialogs, tableHtml>>
    /\ unchangedInputs

\* a plausible slip: no check of images.length, the run goes on without images
ParseNoImages_goesOn ==
    /\ pc = "parse"
    /\ \E result \in {parseImages(clipboardContent)} :
           /\ Len(result) = 0
           /\ images' = result
    /\ steps' = Append(steps, "parseImages")
    /\ pc' = "group"
    /\ UNCHANGED <<clipboard, clipboardContent, standaloneImages, pairedGroups,
                   dialogs, tableHtml>>
    /\ unchangedInputs

\* parseImages finds none: the "No Images Found" dialog
ParseNoImages ==
    /\ pc = "parse"
    /\ \E result \in {parseImages(clipboardContent)} :
           /\ Len(result) = 0
           /\ images' = result
    /\ steps' = steps \o <<"parseImages", "showDialog">>
    /\ dialogs' = Append(dialogs, "No Images Found")
    /\ pc' = "returned"
    /\ UNCHANGED <<clipboard, clipboardContent, standaloneImages, pairedGroups,
                   tableHtml>>
    /\ unchangedInputs

GroupImages ==
    /\ pc = "group"
    /\ \E result \in {groupImagesByCategory(images)} :
           /\ standaloneImages' = result.standaloneImages
           /\ pairedGroups' = result.pairedGroups
    /\ steps' = Append(steps, "groupImagesByCategory")
    /\ pc' = "generate"
    /\ UNCHANGED <<clipboard, clipboardContent, images, dialogs, tableHtml>>
    /\ unchangedInputs

GenerateTable ==
    /\ pc = "generate"
    /\ tableHtml' = generateTable(standaloneImages, pairedGroups)
    /\ steps' = Append(steps, "generateTable")
    /\ pc' = "write"
    /\ UNCHANGED <<clipboard, clipboardContent, images, standaloneImages,
                   pairedGroups, dialogs>>
    /\ unchangedInputs

\* a plausible slip: the clipboard write does not wait for the table
writeGuard_early == pc \in {"group", "generate", "write"}

\* await writeClipboard(tableHtml) comes after generateTable returned
writeGuard == pc = "write"

\* pbcopy succeeds: the table replaces the content of the clipboard
WriteClipboard ==
    /\ writeGuard
    /\ clipboard' = tableHtml
    /\ steps' = Append(steps, "writeClipboard")
    /\ pc' = "report"
    /\ UNCHANGED <<clipboardContent, images, standaloneImages, pairedGroups,
                   dialogs, tableHtml>>
    /\ unchangedInputs

\* pbcopy fails: writeClipboard throws, the catch block shows "Error" and exits
WriteClipboardFails ==
    /\ pc = "write"
    /\ steps' = steps \o <<"writeClipboard", "showDialog">>
    /\ dialogs' = Append(dialogs, "Error")
    /\ pc' = "exit1"
    /\ UNCHANGED <<clipboard, clipboardContent, images, standaloneImages,
                   pairedGroups, tableHtml>>
    /\ unchangedInputs

\* the "Success" dialog; then Deno.exit(0) when run from the app bundle
ReportSuccess ==
    /\ pc = "report"
    /\ steps' = Append(steps, "showDialog")
    /\ dialogs' = Append(dialogs, "Success")
    /\ pc' \in {"exit0", "returned"}
    /\ UNCHANGED <<clipboard, clipboardContent, images, standaloneImages,
                   pairedGroups, tableHtml>>
    /\ unchangedInputs

Next ==
    \/ ReadClipboard
    \/ ReadEmptyClipboard
    \/ ReadClipboardFails
    \/ ParseImages
    \/ ParseNoImages
    \/ GroupImages
    \/ GenerateTable
    \/ WriteClipboard
    \/ WriteClipboardFails
    \/ ReportSuccess

Spec == Init /\ [][Next]_vars

----------------------------------------------------------------------------
(* Properties of the label parser, checked under SpecLabel.                *)

\* the object parseFilename returned
Parsed == parsed[1]

AllDigits(s) == \A i \in 1..Len(s) : IsDigit(s[i])
AllSpaces(s) == \A i \in 1..Len(s) : IsSpace(s[i])

\* the value of a run of decimal digits: the sum of digit * 10^position
DecimalValue(ds) ==
    LET digit(c) == (CHOOSE i \in 1..10 : DigitChars[i] = c) - 1
        val[k \in 0..Len(ds)] == IF k = 0 THEN 0 ELSE 10 * val[k - 1] + digit(ds[k])
    IN  val[Len(ds)]

\* s = digits \o dot \o spaces \o rest, where digits is the whole leading
\* digit run, dot is at most one '.', and spaces is the whole whitespace run
SplitsAsPrefix(s, digits, dot, spaces, rest) ==
    /\ s = digits \o dot \o spaces \o rest
    /\ digits # <<>> /\ AllDigits(digits)
    /\ dot \in {<<>>, <<".">>}
    /\ AllSpaces(spaces)
    /\ dot = <<>> => (spaces \o rest = <<>> \/ ~IsDigit((spaces \o rest)[1]))
    /\ dot = <<>> => (spaces \o rest = <<>> \/ (spaces \o rest)[1] # ".")
    /\ rest = <<>> \/ ~IsSpace(rest[1])

\* C1: a label that begins with digits has order = the integer value of the
\* whole leading digit run, whether '.', whitespace or nothing follows, and the
\* working string is the label without that prefix (the digits, one optional
\* '.', the whitespace after them); a label that does not begin with a digit
\* has order 0 and the working string is the label itself.
C1_OrderExtraction ==
    parsed # NotParsed =>
        IF IsDigit(filename[1])
        THEN \E a \in 1..Len(filename), b \in 0..1, c \in 0..Len(filename) :
                /\ a + b + c <= Len(filename)
                /\ SplitsAsPrefix(filename,
                                  SubSeq(filename, 1, a),
                                  SubSeq(filename, a + 1, a + b),
                                  SubSeq(filename, a + b + 1, a + b + c),
                                  Drop(filename, a + b + c))
                /\ Parsed.order = DecimalValue(SubSeq(filename, 1, a))
                /\ withoutPrefix(filename) = Drop(filename, a + b + c)
        ELSE /\ Parsed.order = 0
             /\ withoutPrefix(filename) = filename

\* C1 happens: a two-digit order followed by '.' has been parsed
C1_Witness ==
    /\ parsed # NotParsed
    /\ Len(filename) >= 3
    /\ IsDigit(filename[1]) /\ IsDigit(filename[2])
    /\ filename[3] = "."
    /\ Parsed.order >= 10

\* the index of the last '_' of s, 0 when s has none
LastUnderscore(s) ==
    IF \A i \in 1..Len(s) : s[i] # "_" THEN 0
    ELSE CHOOSE k \in 1..Len(s) : s[k] = "_" /\ \A j \in (k + 1)..Len(s) : s[j] # "_"

C3_DisplayNameNeverEmpty ==
    (parsed # NotParsed /\ filename # <<>>) => Parsed.formattedAlt # <<>>

\* C3 amended: the displayName of a non-empty label is non-empty exactly when
\* the content (the label without order prefix and role suffix) has a
\* character that is neither '_' nor whitespace; there is no fallback.
C3_DisplayNameEmptyIffBlankContent ==
    (parsed # NotParsed /\ filename # <<>>) =>
        (Parsed.formattedAlt # <<>>
            <=> \E i \in 1..Len(contentOf(filename)) :
                    ~IsSpace(contentOf(filename)[i]) /\ contentOf(filename)[i] # "_")

\* C3 happens: a label made of a role suffix alone got an empty displayName
C3_Witness ==
    /\ parsed # NotParsed
    /\ filename # <<>>
    /\ Parsed.timing = "before"
    /\ Parsed.formattedAlt = <<>>

\* c[i..] is 'feature' in any letter case, then whitespace/underscores up to
\* k, then the digit run c[k..n], which ends at n
FeatureNumberAt(c, i, k, n) ==
    /\ 1 <= i /\ i + 7 <= k /\ k <= n /\ n <= Len(c)
    /\ toLowerCase(SubSeq(c, i, i + 6)) = FeatureWord
    /\ \A j \in (i + 7)..(k - 1) : c[j] = "_" \/ IsSpace(c[j])
    /\ \A j \in k..n : IsDigit(c[j])
    /\ n = Len(c) \/ ~IsDigit(c[n + 1])

HasFeatureNumber(c) ==
    \E i \in 1..Len(c), k \in 1..Len(c), n \in 1..Len(c) : FeatureNumberAt(c, i, k, n)

Feature54 == <<"4","f","e","a","t","u","r","e","5","4","_","a","f","t","e","r">>

C5_OrderGating ==
    parsed # NotParsed =>
        LET c == contentOf(filename)
        IN  (c # <<>> /\ AllDigits(c) /\ ~HasFeatureNumber(c)) =>
                /\ Parsed.order > 0 =>
                       /\ Parsed.featureNumber = c
                       /\ Parsed.formattedAlt = <<"F","e","a","t","u","r","e"," ">> \o c
                /\ Parsed.order = 0 =>
                       /\ Parsed.featureNumber = <<>>
                       /\ Parsed.formattedAlt = c

\* C5 happens: a bare number after the order prefix 0 has been parsed
C5_Witness ==
    /\ parsed # NotParsed
    /\ Parsed.order = 0
    /\ contentOf(filename) # <<>>
    /\ AllDigits(contentOf(filename))

\* s ends with a separator ('_' or ' ') followed by `word` in any letter case,
\* after a non-empty name
EndsWithTimingWord(s, word) ==
    LET k == Len(s) - Len(word)
    IN  /\ k > prefixLen(s) + 1
        /\ s[k] \in {"_", " "}
        /\ toLowerCase(Drop(s, k)) = word

AwesomeBefore ==
    <<"5"," ","m","y"," ","a","w","e","s","o","m","e"," ",
      "f","e","a","t","u","r","e"," ","b","e","f","o","r","e">>
ButtonAfter ==
    <<"6"," ","b","u","t","t","o","n","_","s","t","y","l","e"," ","A","F","T","E","R">>

\* C6: a timing word at the end of the label is recognised after an underscore
\* or after a space, in any letter case, and is removed from the name:
\* "5 my awesome feature before" is order 5, "my awesome feature", before;
\* "6 button_style AFTER" is order 6, "button style", after.
C6_TimingWordAfterSpaceOrUnderscore ==
    parsed # NotParsed =>
        /\ EndsWithTimingWord(filename, Before) => Parsed.timing = "before"
        /\ EndsWithTimingWord(filename, After) => Parsed.timing = "after"
        /\ filename = AwesomeBefore =>
               /\ Parsed.order = 5
               /\ Parsed.timing = "before"
               /\ Parsed.formattedAlt =
                      <<"m","y"," ","a","w","e","s","o","m","e"," ",
                        "f","e","a","t","u","r","e">>
        /\ filename = ButtonAfter =>
               /\ Parsed.order = 6
               /\ Parsed.timing = "after"
               /\ Parsed.formattedAlt =
                      <<"b","u","t","t","o","n"," ","s","t","y","l","e">>

----------------------------------------------------------------------------
(* Properties of the conversion, checked under Spec.                       *)

\* convertClipboard has made the call
Called(name) == \E i \in 1..Len(steps) : steps[i] = name

\* parseImages has just returned: images is what it returned
ImagesParsed == pc \in {"group", "generate"} \/ (pc = "returned" /\ Called("parseImages"))

\* parseImages has returned, at any later point of the run
ParseReturned == Called("parseImages")

\* groupImagesByCategory has returned
ImagesGrouped == pc = "generate"

\* the element of the document an image comes from: the one with its src
SrcOfElement(el) == {el[k].value : k \in {j \in 1..Len(el) : el[j].name = SrcName}}

ElementOf(image) ==
    document[CHOOSE i \in 1..Len(document) : image.src \in SrcOfElement(document[i])]

HasAttr(el, name) == \E k \in 1..Len(el) : el[k].name = name /\ el[k].value # <<>>

\* the alt text of an element that has one
AltOf(el) == el[CHOOSE k \in 1..Len(el) : el[k].name = AltName].value

\* the images the paired groups hold in their slots
HeldBy(group) ==
    {group.before[i] : i \in 1..Len(group.before)}
    \cup {group.after[i] : i \in 1..Len(group.after)}

\* the images of the result of groupImagesByCategory
GroupedImages ==
    {standaloneImages[i] : i \in 1..Len(standaloneImages)}
    \cup UNION {HeldBy(pairedGroups[i]) : i \in 1..Len(pairedGroups)}

\* the digit run of the leftmost 'feature' + separators + digits of c
LeftmostFeatureNumber(c) ==
    LET found(i) == \E k \in (i + 7)..Len(c) : \E n \in k..Len(c) :
                        FeatureNumberAt(c, i, k, n)
        i0 == Min({i \in 1..Len(c) : found(i)})
        k0 == CHOOSE k \in (i0 + 7)..Len(c) : \E n \in k..Len(c) :
                        FeatureNumberAt(c, i0, k, n)
        n0 == CHOOSE n \in k0..Len(c) : FeatureNumberAt(c, i0, k0, n)
    IN  SubSeq(c, k0, n0)

\* the name USAGE.md describes: the label without order prefix and timing
\* suffix, its underscores converted to spaces
PlainName(label) == replaceUnderscores(contentOf(label))

\* the name the code displays: "Feature <n>" for a content with a feature
\* number or a bare number after an order prefix, else the plain name trimmed
DisplayedName(label) ==
    LET c == contentOf(label)
    IN  IF \E i \in 1..Len(c) : \E k \in (i + 7)..Len(c) : \E n \in k..Len(c) :
                FeatureNumberAt(c, i, k, n)
        THEN <<"F","e","a","t","u","r","e"," ">> \o LeftmostFeatureNumber(c)
        ELSE IF c # <<>> /\ AllDigits(c) /\ order(label) > 0
        THEN <<"F","e","a","t","u","r","e"," ">> \o c
        ELSE trim(PlainName(label))

\* two paired images are together in one group
PairedTogether(a, b) ==
    \E i \in 1..Len(pairedGroups) :
        a \in HeldBy(pairedGroups[i]) /\ b \in HeldBy(pairedGroups[i])

C8_ImageIffAltAndSrc ==
    /\ ImagesParsed =>
           \A i \in 1..Len(document) :
               (\E k \in 1..Len(images) : images[k].src \in SrcOfElement(document[i]))
                   <=> (HasAttr(document[i], AltName) /\ HasAttr(document[i], SrcName))
    /\ ImagesGrouped =>
           \A i \in 1..Len(document) :
               (\E image \in GroupedImages : image.src \in SrcOfElement(document[i]))
                   => (HasAttr(document[i], AltName) /\ HasAttr(document[i], SrcName))

\* the place in the document of the tag an image comes from
TagIndex(image) ==
    CHOOSE i \in 1..Len(document) : image.src \in SrcOfElement(document[i])

\* C9: parseImages returns the images by ascending order, and images of equal
\* order (those of order 0 included) in the order of their tags in the HTML;
\* the result holds the images of the while loop, each once.
C9_StableSortByOrder ==
    ImagesParsed =>
        /\ \A a \in 1..Len(images), b \in 1..Len(images) :
               a < b => images[a].order <= images[b].order
        /\ \A a \in 1..Len(images), b \in 1..Len(images) :
               (a < b /\ images[a].order = images[b].order)
                   => TagIndex(images[a]) < TagIndex(images[b])
        /\ LET pushed == extractedImages(clipboardContent)
           IN  /\ Len(images) = Len(pushed)
               /\ \A k \in 1..Len(images) :
                      \E j \in 1..Len(images) : pushed[j] = images[k]

\* C9 happens: the sort moved an image and two images have the same order
C9_Witness ==
    /\ ImagesParsed
    /\ images # extractedImages(clipboardContent)
    /\ \E a \in 1..Len(images), b \in 1..Len(images) :
           a < b /\ images[a].order = images[b].order

\* C10 as the specification states it: the order of every paired group is
\* the least order of the images the group holds in its before/after slots.
C10_GroupOrderIsMinOfHeld ==
    ImagesGrouped =>
        \A i \in 1..Len(pairedGroups) :
            pairedGroups[i].order
                = Min({image.order : image \in HeldBy(pairedGroups[i])})

\* C10 amended: the order of every paired group is the least order of all the
\* before/after images of its category in the input, those that a later image
\* of the same role replaced in the slot included.
C10_GroupOrderIsMinOfCategory ==
    ImagesGrouped =>
        \A i \in 1..Len(pairedGroups) :
            pairedGroups[i].order
                = Min({images[k].order : k \in
                        {k \in 1..Len(images) :
                            /\ images[k].timing # "standalone"
                            /\ images[k].category = pairedGroups[i].key}})

\* C10 happens: a group holds a before and an after image of different order
C10_Witness ==
    /\ ImagesGrouped
    /\ \E i \in 1..Len(pairedGroups) :
           /\ pairedGroups[i].before # <<>>
           /\ pairedGroups[i].after # <<>>
           /\ pairedGroups[i].before[1].order # pairedGroups[i].after[1].order
           /\ pairedGroups[i].order < pairedGroups[i].after[1].order

----------------------------------------------------------------------------
(* Properties of grouping and rendering, checked under Spec.               *)

\* the places in the sorted images of the images of a category and a timing
PlacesOf(name, role) ==
    {k \in 1..Len(images) : images[k].category = name /\ images[k].timing = role}

Max(S) == CHOOSE x \in S : \A y \in S : y <= x

\* what a slot holds under last-write-wins: the last image of the category and
\* timing in the sorted sequence, nothing when there is none
LastWritten(name, role) ==
    IF PlacesOf(name, role) = {} THEN <<>> ELSE <<images[Max(PlacesOf(name, role))]>>

\* C11: groupImagesByCategory keeps one group per category with at most one
\* before and at most one after image; a slot holds the last image of its
\* category and timing in the sorted sequence, and dropping the earlier ones
\* raises no error.
C11_LastWriteWins ==
    ImagesGrouped =>
        /\ \A i \in 1..Len(pairedGroups), j \in 1..Len(pairedGroups) :
               pairedGroups[i].key = pairedGroups[j].key => i = j
        /\ \A k \in 1..Len(images) :
               images[k].timing # "standalone" => hasGroup(pairedGroups, images[k].category)
        /\ \A i \in 1..Len(pairedGroups) :
               /\ Len(pairedGroups[i].before) <= 1
               /\ Len(pairedGroups[i].after) <= 1
               /\ pairedGroups[i].before = LastWritten(pairedGroups[i].key, "before")
               /\ pairedGroups[i].after = LastWritten(pairedGroups[i].key, "after")
        /\ pc = "generate" => dialogs = <<>>

\* C11 happens: two images of one category and timing were grouped, and the
\* slot holds the later one
C11_Witness ==
    /\ ImagesGrouped
    /\ \E i \in 1..Len(pairedGroups) :
           /\ Cardinality(PlacesOf(pairedGroups[i].key, "before")) >= 2
           /\ pairedGroups[i].before = LastWritten(pairedGroups[i].key, "before")

\* generateTable has returned
TableGenerated == Called("generateTable")

\* the places in tableHtml of the lines that satisfy a test
IsSectionHeader(line) == line.text = ThColspan(<<>>).text
IsImageCell(line) == line.text = <<"    <td><img src=\"", "\" alt=\"", "\" width=\"400\"></td>\n">>

SectionHeaders == {k \in 1..Len(tableHtml) : IsSectionHeader(tableHtml[k])}

\* where the section of a paired group starts in the rendered table
SectionStart(group) ==
    CHOOSE k \in SectionHeaders : tableHtml[k].values = <<formatCategoryTitle(group.key)>>

Rendered(group) ==
    \E k \in SectionHeaders : tableHtml[k].values = <<formatCategoryTitle(group.key)>>

\* the least order among the images a group holds in its slots
MinHeldOrder(group) == Min({image.order : image \in HeldBy(group)})

\* the least order among the images of the group's category that were grouped
MinCategoryOrder(group) ==
    Min({images[k].order : k \in PlacesOf(group.key, "before") \cup PlacesOf(group.key, "after")})

\* C12 as stated: a paired group whose held images have the lesser minimum
\* order is rendered strictly before the other; groups of equal order are
\* rendered in insertion order.
C12_RenderOrderByMinOfHeld ==
    TableGenerated =>
        \A i \in 1..Len(pairedGroups), j \in 1..Len(pairedGroups) :
            /\ Rendered(pairedGroups[i])
            /\ MinHeldOrder(pairedGroups[i]) < MinHeldOrder(pairedGroups[j])
                   => SectionStart(pairedGroups[i]) < SectionStart(pairedGroups[j])
            /\ (pairedGroups[i].order = pairedGroups[j].order /\ i < j)
                   => SectionStart(pairedGroups[i]) < SectionStart(pairedGroups[j])

\* C12 amended: the order that decides is group.order, the least order among
\* all grouped images of the category, those replaced in their slot included:
\* the group of lesser order is rendered strictly before the other, and groups
\* of equal order are rendered in insertion order.
C12_RenderOrderByGroupOrder ==
    TableGenerated =>
        \A i \in 1..Len(pairedGroups), j \in 1..Len(pairedGroups) :
            /\ Rendered(pairedGroups[i])
            /\ pairedGroups[i].order = MinCategoryOrder(pairedGroups[i])
            /\ pairedGroups[i].order < pairedGroups[j].order
                   => SectionStart(pairedGroups[i]) < SectionStart(pairedGroups[j])
            /\ (pairedGroups[i].order = pairedGroups[j].order /\ i < j)
                   => SectionStart(pairedGroups[i]) < SectionStart(pairedGroups[j])

\* C12 happens: a table with two paired groups of different order, and one
\* with two paired groups of equal order, was generated
C12_Witness ==
    /\ TableGenerated
    /\ \E i \in 1..Len(pairedGroups), j \in 1..Len(pairedGroups) :
           /\ pairedGroups[i].order < pairedGroups[j].order
           /\ SectionStart(pairedGroups[i]) < SectionStart(pairedGroups[j])
           /\ MinHeldOrder(pairedGroups[i]) < MinHeldOrder(pairedGroups[j])

IsStandaloneHeader(line) == line.text = Th(<<>>).text \/ line = ThEmpty

ImageCells == {k \in 1..Len(tableHtml) : IsImageCell(tableHtml[k])}

\* the image cells that show an image: those with its src and its alt
CellsOf(image) == {k \in ImageCells : tableHtml[k].values = <<image.src, image.alt>>}

CellOf(image) == CHOOSE k \in CellsOf(image) : TRUE

\* the places of the standalone images in the sorted images
StandalonePlaces == {k \in 1..Len(images) : images[k].timing = "standalone"}

\* C13: in the rendered table the rows of every standalone image come before
\* the rows of every paired group, whatever the order numbers, and the
\* standalone images keep the order of the sorted images.
C13_StandaloneFirst ==
    TableGenerated =>
        /\ \A k \in StandalonePlaces :
               /\ CellsOf(images[k]) # {}
               /\ \A h \in SectionHeaders : CellOf(images[k]) < h
        /\ \A k \in 1..Len(tableHtml), h \in SectionHeaders :
               IsStandaloneHeader(tableHtml[k]) => k < h
        /\ \A i \in 1..Len(pairedGroups) :
               \A image \in HeldBy(pairedGroups[i]) :
                   /\ CellsOf(image) # {}
                   /\ \A k \in CellsOf(image) : SectionStart(pairedGroups[i]) < k
        /\ \A k \in StandalonePlaces, l \in StandalonePlaces :
               k < l => CellOf(images[k]) < CellOf(images[l])

\* C13 happens: a standalone image of a greater order than a paired group is
\* rendered before that group
C13_Witness ==
    /\ TableGenerated
    /\ \E k \in StandalonePlaces, i \in 1..Len(pairedGroups) :
           /\ pairedGroups[i].order < images[k].order
           /\ CellOf(images[k]) < SectionStart(pairedGroups[i])
    /\ \E k \in StandalonePlaces, l \in StandalonePlaces : k < l

\* ceil(n / 2)
HalfUp(n) == (n + 1) \div 2

\* the line of tableHtml at a place counted from 0, TableOpen being line 0
LineAt(k) == tableHtml[k + 1]

\* the standalone entry at a place counted from 0
Entry(e) == standaloneImages[e + 1]

\* C14: n standalone images are rendered as ceil(n/2) pairs of a header row
\* and an image row right after the opening of the table; pair i (from 0)
\* holds the entries 2i on the left and 2i+1 on the right, and when n is odd
\* the last pair has an empty <th> and an empty <td> on the right.
C14_StandaloneLayout ==
    TableGenerated =>
        LET n == Len(standaloneImages)
        IN  /\ Len(tableHtml) >= 8 * HalfUp(n) + 2
            /\ \A i \in 0..(HalfUp(n) - 1) :
                   LET at == 1 + 8 * i
                       partner == 2 * i + 1 < n
                   IN  /\ LineAt(at) = TrOpen
                       /\ LineAt(at + 1) = Th(formatCategoryTitle(Entry(2 * i).category))
                       /\ partner => LineAt(at + 2)
                                       = Th(formatCategoryTitle(Entry(2 * i + 1).category))
                       /\ ~partner => LineAt(at + 2) = ThEmpty
                       /\ LineAt(at + 3) = TrClose
                       /\ LineAt(at + 4) = TrOpen
                       /\ LineAt(at + 5) = TdImg(Entry(2 * i))
                       /\ partner => LineAt(at + 6) = TdImg(Entry(2 * i + 1))
                       /\ ~partner => LineAt(at + 6) = TdEmpty
                       /\ LineAt(at + 7) = TrClose
            /\ \A k \in (8 * HalfUp(n) + 1)..(Len(tableHtml) - 1) :
                   ~IsStandaloneHeader(LineAt(k))
            /\ Cardinality({k \in 1..Len(tableHtml) : IsStandaloneHeader(tableHtml[k])})
                   = 2 * HalfUp(n)

\* C14 happens: an odd number of standalone images, three or more, was
\* rendered: a full pair and a last pair with an empty right side
C14_Witness ==
    /\ TableGenerated
    /\ Len(standaloneImages) >= 3
    /\ Len(standaloneImages) % 2 = 1
    /\ LineAt(8 * HalfUp(Len(standaloneImages)) - 1) = TdEmpty

\* the cell of a slot of a group: its image, or an empty cell
CellFor(slot) == IF slot = <<>> THEN TdEmpty ELSE TdImg(slot[1])

\* the lines that hold the src of an image of the table
HoldsImage(line) ==
    \E k \in 1..Len(images) : \E v \in 1..Len(line.values) : line.values[v] = images[k].src

\* C15: every paired group is rendered as exactly three rows: its title in a
\* header that spans 2 columns, the sub-headers Before and After, and an image
\* row of exactly two cells, before on the left and after on the right, with
\* an empty cell in the column of a missing image; every image cell has
\* width="400", and rendering never fails.
C15_PairedLayout ==
    /\ pc = "generate" => ENABLED GenerateTable
    /\ TableGenerated =>
        /\ Cardinality(SectionHeaders) = Len(pairedGroups)
        /\ \A i \in 1..Len(pairedGroups) :
               /\ Rendered(pairedGroups[i])
               /\ LET h == SectionStart(pairedGroups[i])
                  IN  /\ h + 9 < Len(tableHtml)
                      /\ SubSeq(tableHtml, h - 1, h + 9)
                           = <<TrOpen,
                               ThColspan(formatCategoryTitle(pairedGroups[i].key)),
                               TrClose,
                               TrOpen, ThBefore, ThAfter, TrClose,
                               TrOpen,
                               CellFor(pairedGroups[i].before),
                               CellFor(pairedGroups[i].after),
                               TrClose>>
                      /\ tableHtml[h + 10] \in {TrOpen, TableClose}
                      /\ tableHtml[h + 10] = TrOpen => (h + 11) \in SectionHeaders
        /\ \A k \in 1..Len(tableHtml) : HoldsImage(tableHtml[k]) => IsImageCell(tableHtml[k])
        /\ \A k \in 1..Len(dialogs) : dialogs[k] = "Error" => Called("writeClipboard")

\* C15 happens: a group without a before image was rendered, with an empty
\* cell on the left and its after image on the right
C15_Witness ==
    /\ TableGenerated
    /\ \E i \in 1..Len(pairedGroups) :
           /\ pairedGroups[i].before = <<>>
           /\ tableHtml[SectionStart(pairedGroups[i]) + 7] = TdEmpty
           /\ tableHtml[SectionStart(pairedGroups[i]) + 8] = TdImg(pairedGroups[i].after[1])

\* every word of a title starts with a capital: no lower-case letter at its
\* start or after a space
IsLowerLetter(ch) == ch \in DOMAIN UpperOf

EveryWordCapitalised(s) ==
    \A i \in 1..Len(s) : (i = 1 \/ s[i - 1] = " ") => ~IsLowerLetter(s[i])

LoginScreenTitle == <<"L","o","g","i","n"," ","S","c","r","e","e","n">>

\* C16: the section title of a paired group is the category in title case,
\* every word capitalised; the alts "1. login_screen_before" (src url1.jpg)
\* and "1. login_screen_after" (src url2.jpg) give one section titled
\* "Login Screen" with url1.jpg in the Before cell and url2.jpg in the After cell.
C16_SectionTitleInTitleCase ==
    TableGenerated =>
        /\ \A h \in SectionHeaders : EveryWordCapitalised(tableHtml[h].values[1])
        /\ document = UsageDocument =>
               /\ Cardinality(SectionHeaders) = 1
               /\ \A h \in SectionHeaders :
                      /\ tableHtml[h].values = <<LoginScreenTitle>>
                      /\ tableHtml[h + 7].values[1] = <<"u","r","l","1",".","j","p","g">>
                      /\ tableHtml[h + 8].values[1] = <<"u","r","l","2",".","j","p","g">>

\* no two images share both category and timing
NoSharedSlot ==
    \A k \in 1..Len(images), l \in 1..Len(images) :
        (images[k].category = images[l].category /\ images[k].timing = images[l].timing)
            => k = l

\* every paired category has exactly one before and exactly one after image
EveryCategoryPaired ==
    \A k \in 1..Len(images) :
        images[k].timing # "standalone" =>
            /\ Cardinality(PlacesOf(images[k].category, "before")) = 1
            /\ Cardinality(PlacesOf(images[k].category, "after")) = 1

\* the image cells with a given src
CellsWithSrc(src) == {k \in ImageCells : tableHtml[k].values[1] = src}

\* the section headers with the title of a category
SectionsOf(name) ==
    {h \in SectionHeaders : tableHtml[h].values = <<formatCategoryTitle(name)>>}

PairedCategories ==
    {images[k].category : k \in {l \in 1..Len(images) : images[l].timing # "standalone"}}

\* C17: when no two images share both category and timing, the src of every
\* image is in exactly one image cell of the table, and there are no other
\* image cells; when moreover every paired category has exactly one before and
\* one after image, the table has exactly one section per category, and the
\* image row of that section shows both of its images.
C17_RoundTrip ==
    (TableGenerated /\ NoSharedSlot) =>
        /\ \A k \in 1..Len(images) : Cardinality(CellsWithSrc(images[k].src)) = 1
        /\ Cardinality(ImageCells) = Len(images)
        /\ EveryCategoryPaired =>
               /\ Cardinality(SectionHeaders) = Cardinality(PairedCategories)
               /\ \A name \in PairedCategories :
                      /\ Cardinality(SectionsOf(name)) = 1
                      /\ \A h \in SectionsOf(name) :
                             /\ tableHtml[h + 7].values[1]
                                  = images[Min(PlacesOf(name, "before"))].src
                             /\ tableHtml[h + 8].values[1]
                                  = images[Min(PlacesOf(name, "after"))].src

\* C17 happens: a table was generated from a standalone image and a category
\* with one before and one after image
C17_Witness ==
    /\ TableGenerated
    /\ NoSharedSlot
    /\ EveryCategoryPaired
    /\ PairedCategories # {}
    /\ StandalonePlaces # {}
    /\ Cardinality(ImageCells) = Len(images)

\* a dialog with this title has been shown
Shown(name) == \E k \in 1..Len(dialogs) : dialogs[k] = name

\* the clipboard still holds what the user copied
ClipboardUntouched == ~Called("writeClipboard") /\ clipboard = documentHtml(document)

\* C18: "No Images Found" is reported exactly when the extraction yields zero
\* images; the run then neither generates a table nor writes the clipboard,
\* and never reports success; when the extraction yields an image, the table
\* that is generated and written has at least one image cell.
C18_NoImagesFound ==
    /\ ParseReturned => (Shown("No Images Found") <=> Len(images) = 0)
    /\ Shown("No Images Found") =>
           /\ ParseReturned
           /\ ~Called("groupImagesByCategory")
           /\ ~Called("generateTable")
           /\ ClipboardUntouched
           /\ ~Shown("Success")
           /\ pc = "returned"
    /\ TableGenerated => (Len(images) >= 1 /\ ImageCells # {})
    /\ Called("writeClipboard") => TableGenerated
    /\ pc \in {"report", "exit0"} \/ (pc = "returned" /\ Shown("Success"))
           => (clipboard = tableHtml /\ ImageCells # {})

\* C18 happens: a clipboard with <img> tags none of which yields an image was
\* parsed, and "No Images Found" was reported
C18_Witness ==
    /\ Shown("No Images Found")
    /\ Len(document) >= 2
    /\ Len(images) = 0

----------------------------------------------------------------------------
(* Properties of the title formatter, checked under SpecTitle.             *)

\* the string formatCategoryTitle returned
Title == title[1]

\* capitalised words separated by single spaces: no underscore, no space at
\* either end, no two spaces in a row, no lower-case letter at the start of a word
CapitalisedWords(s) ==
    /\ s # <<>>
    /\ \A i \in 1..Len(s) : s[i] # "_"
    /\ s[1] # " " /\ s[Len(s)] # " "
    /\ \A i \in 2..Len(s) : ~(s[i - 1] = " " /\ s[i] = " ")
    /\ EveryWordCapitalised(s)

MyLongCategory == <<"m","y","_","l","o","n","g","_","c","a","t","e","g","o","r","y">>

\* C19: formatCategoryTitle splits on '_' only: the title has the length of
\* the category, a space for every underscore, the upper-case of every
\* character that starts the category or follows an underscore, and every
\* other character unchanged ("my_long_category" gives "My Long Category");
\* formatting a title again changes nothing, and capitalised words separated
\* by single spaces are returned unchanged.
C19_TitleFormat ==
    title # NoTitle =>
        /\ Len(Title) = Len(category)
        /\ \A i \in 1..Len(category) :
               Title[i] = IF category[i] = "_" THEN " "
                          ELSE IF i = 1 \/ category[i - 1] = "_"
                               THEN (IF IsLowerLetter(category[i])
                                     THEN UpperOf[category[i]] ELSE category[i])
                               ELSE category[i]
        /\ category = MyLongCategory
               => Title = <<"M","y"," ","L","o","n","g"," ","C","a","t","e","g","o","r","y">>
        /\ formatCategoryTitle(Title) = Title
        /\ CapitalisedWords(category) => Title = category

\* C19 happens: a category of several segments, one of which starts with a
\* lower-case letter after an underscore, was formatted
C19_Witness ==
    /\ title # NoTitle
    /\ \E i \in 2..Len(category) :
           category[i - 1] = "_" /\ IsLowerLetter(category[i]) /\ Title[i] # category[i]

----------------------------------------------------------------------------
(* Properties of the run of convertClipboard, checked under Spec.          *)

\* the steps of a complete run, in the order of main.ts 318-343
PipelineOrder ==
    <<"readClipboard", "parseImages", "groupImagesByCategory", "generateTable",
      "writeClipboard", "showDialog">>

IsPipelineCall(name) == name # "showDialog"

\* the calls made so far, the dialogs left out
CallsMade == SelectSeq(steps, IsPipelineCall)

\* C20: in every run the steps are made in the order read clipboard, parse
\* images, group, generate table, write clipboard, report; the clipboard is
\* written at most once and only after parsing produced an image; "Success" is
\* shown only after the write succeeded, and never together with another dialog.
C20_StepOrder ==
    /\ Len(CallsMade) <= 5
    /\ CallsMade = SubSeq(PipelineOrder, 1, Len(CallsMade))
    /\ Cardinality({k \in 1..Len(steps) : steps[k] = "writeClipboard"}) <= 1
    /\ Called("writeClipboard") =>
           /\ ParseReturned /\ Len(images) >= 1
           /\ tableHtml = generateTable(standaloneImages, pairedGroups)
    /\ ~Called("writeClipboard") => clipboard = documentHtml(document)
    /\ Len(dialogs) <= 1
    /\ Shown("Success") =>
           /\ steps = PipelineOrder
           /\ clipboard = tableHtml
           /\ dialogs = <<"Success">>
           /\ pc \in {"exit0", "returned"}
    /\ (Shown("Error") \/ Shown("No Content") \/ Shown("No Images Found"))
           => (~Shown("Success") /\ steps[Len(steps)] = "showDialog")
    /\ pc = "report" => (clipboard = tableHtml /\ steps = SubSeq(PipelineOrder, 1, 5))

\* C20 happens: a run went through all its steps and reported success
C20_Witness ==
    /\ Shown("Success")
    /\ steps = PipelineOrder
    /\ Len(images) >= 2

\* the places in the sorted images of the before/after images of a category
PairedPlacesOf(name) == PlacesOf(name, "before") \cup PlacesOf(name, "after")

\* the first before/after image of a category in the sorted images: the one
\* for which the group is inserted into the Map
FirstOf(name) == images[Min(PairedPlacesOf(name))]

\* C21: on the sorted images that parseImages returns, the order of every
\* group is the order of the first image inserted for its category (Math.min
\* never lowers it), the Map is already in ascending group.order, its groups
\* stand in the order of first appearance of their categories, and so the
\* sort of generateTable changes nothing: the table is the one rendered from
\* the Map as it is.
C21_ResortIsIdentity ==
    /\ ImagesGrouped =>
           /\ \A i \in 1..Len(pairedGroups) :
                  /\ PairedPlacesOf(pairedGroups[i].key) # {}
                  /\ pairedGroups[i].order = FirstOf(pairedGroups[i].key).order
                  /\ \A k \in PairedPlacesOf(pairedGroups[i].key) :
                         pairedGroups[i].order <= images[k].order
           /\ \A i \in 1..Len(pairedGroups), j \in 1..Len(pairedGroups) :
                  i < j =>
                      /\ pairedGroups[i].order <= pairedGroups[j].order
                      /\ Min(PairedPlacesOf(pairedGroups[i].key))
                           < Min(PairedPlacesOf(pairedGroups[j].key))
           /\ sortedPairedGroups(pairedGroups) = pairedGroups
    /\ pc = "write" =>
           /\ tableHtml = <<TableOpen>> \o standaloneRows(standaloneImages, 0)
                              \o pairedRows(pairedGroups) \o <<TableClose>>
           /\ \A i \in 1..Len(pairedGroups), j \in 1..Len(pairedGroups) :
                  Min(PairedPlacesOf(pairedGroups[i].key))
                    < Min(PairedPlacesOf(pairedGroups[j].key))
                      => SectionStart(pairedGroups[i]) < SectionStart(pairedGroups[j])

\* C21 happens: a table was generated from two groups of different order, one
\* of which received a later image of a greater order than its own
C21_Witness ==
    /\ pc = "write"
    /\ \E i \in 1..Len(pairedGroups), j \in 1..Len(pairedGroups) :
           /\ pairedGroups[i].order < pairedGroups[j].order
           /\ \E k \in PairedPlacesOf(pairedGroups[i].key) :
                  images[k].order > pairedGroups[i].order

====
